---- MODULE Spec2Model ----
(***************************************************************************)
(* Model of internal/gfwlist/gfwlist.go: the GFWList rule parser           *)
(* (fetchGFWList), the rule variants and their match methods, the two-tier *)
(* matcher (fastMatchDomain, IsBlockedByGFW) and the mutex-guarded holder  *)
(* (setFrom).  Go strings are modelled as sequences of one-character       *)
(* strings, so that prefix, suffix, substring, split and slice are         *)
(* computed as the code computes them.                                     *)
(***************************************************************************)
EXTENDS Integers, Sequences, FiniteSets, TLC

(***************************************************************************)
(* Bounds of the model.                                                    *)
(***************************************************************************)
\* longest list (in lines) the loader is given
MaxLines == 2
\* longest line enumerated exhaustively over LineAlphabet
MaxLineLen == 3
\* number of goroutines calling IsBlockedByGFW concurrently
NumQueriers == 2

(***************************************************************************)
(* Text constants.                                                         *)
(***************************************************************************)
NL == "\n"
\* the zero byte
NUL == "NUL"
E == << >>
S_at2 == <<"@", "@">>
S_bar == <<"|">>
S_bar2 == <<"|", "|">>
S_slash == <<"/">>
S_dot == <<".">>
S_bang == <<"!">>
S_lbr == <<"[">>
S_colon == <<":">>
S_sp == <<" ">>
S_https == <<"h", "t", "t", "p", "s">>
S_http == <<"h", "t", "t", "p">>
S_css == <<":", "/", "/">>
W_example == <<"e", "x", "a", "m", "p", "l", "e">>
W_safe == <<"s", "a", "f", "e">>
W_sub == <<"s", "u", "b">>
W_www == <<"w", "w", "w">>
W_abc == <<"a", "b", "c">>
W_com == <<"c", "o", "m">>
W_x == <<"x">>
W_v6 == <<"[", ":", ":", "1", "]">>
W_80 == <<"8", "0">>
S_bsdot == <<"\\", ".">>

D_example_com == W_example \o S_dot \o W_com
D_safe_example_com == W_safe \o S_dot \o D_example_com
D_sub_safe_example_com == W_sub \o S_dot \o D_safe_example_com
D_www_example_com == W_www \o S_dot \o D_example_com
D_abc_com == W_abc \o S_dot \o W_com
D_www_abc_com == W_www \o S_dot \o D_abc_com
D_x_www_abc_com == W_x \o S_dot \o D_www_abc_com
\* the regular expressions  safe\.example\.com  and  example\.com
R_example_com == W_example \o S_bsdot \o W_com
R_safe_example_com == W_safe \o S_bsdot \o R_example_com

Letters == {"a", "b", "c", "d", "e", "f", "g", "h", "i", "j", "k", "l", "m",
            "n", "o", "p", "q", "r", "s", "t", "u", "v", "w", "x", "y", "z"}
Digits == {"0", "1", "2", "3", "4", "5", "6", "7", "8", "9"}
\* unicode.IsSpace restricted to the characters the model uses
SpaceChars == {" ", "\t", "\r", "\n"}

(***************************************************************************)
(* package strings, and Go's slice expression.                             *)
(***************************************************************************)
HasPrefix(s, p) == Len(p) <= Len(s) /\ SubSeq(s, 1, Len(p)) = p

HasSuffix(s, p) == Len(p) <= Len(s) /\ SubSeq(s, Len(s) - Len(p) + 1, Len(s)) = p

Contains(s, p) == \E i \in 0..(Len(s) - Len(p)) : SubSeq(s, i + 1, i + Len(p)) = p

\* s[lo:hi] panics at run time unless 0 <= lo <= hi <= len(s)
SliceOK(s, lo, hi) == 0 <= lo /\ lo <= hi /\ hi <= Len(s)

Slice(s, lo, hi) == SubSeq(s, lo + 1, hi)

RECURSIVE TrimLeft(_)
TrimLeft(s) == IF s # E /\ s[1] \in SpaceChars THEN TrimLeft(Tail(s)) ELSE s

RECURSIVE TrimRight(_)
TrimRight(s) ==
    IF s # E /\ s[Len(s)] \in SpaceChars THEN TrimRight(SubSeq(s, 1, Len(s) - 1)) ELSE s

TrimSpace(s) == TrimRight(TrimLeft(s))

\* index (1-based) of the first occurrence of character c in s, 0 when absent
IndexOf(s, c) == IF \E i \in 1..Len(s) : s[i] = c
                 THEN CHOOSE i \in 1..Len(s) : s[i] = c /\ \A j \in 1..(i - 1) : s[j] # c
                 ELSE 0

\* index (1-based) of the last occurrence of character c in s, 0 when absent
LastIndexOf(s, c) == IF \E i \in 1..Len(s) : s[i] = c
                     THEN CHOOSE i \in 1..Len(s) : s[i] = c /\ \A j \in (i + 1)..Len(s) : s[j] # c
                     ELSE 0

\* strings.Split(s, sep) for a one-character separator: never empty
RECURSIVE Split(_, _)
Split(s, c) == LET i == IndexOf(s, c)
               IN IF i = 0 THEN <<s>>
                  ELSE <<SubSeq(s, 1, i - 1)>> \o Split(SubSeq(s, i + 1, Len(s)), c)

RECURSIVE Join(_, _)
Join(ss, sep) == IF ss = << >> THEN E
                 ELSE IF Len(ss) = 1 THEN ss[1]
                 ELSE ss[1] \o sep \o Join(Tail(ss), sep)

(***************************************************************************)
(* net/url as IsBlockedByGFW and the match methods use it.  A parsed URL   *)
(* is a record of the fields the code reads: Scheme, Opaque, Host, Path.   *)
(* The model's inputs carry no userinfo, query, fragment or percent        *)
(* escapes, so those parts of url.Parse and URL.String are left out.       *)
(***************************************************************************)
\* getScheme: [ok, scheme, rest]
RECURSIVE getSchemeFrom(_, _)
getSchemeFrom(raw, i) ==
    IF i > Len(raw) THEN [ok |-> TRUE, scheme |-> E, rest |-> raw]
    ELSE IF raw[i] \in Letters THEN getSchemeFrom(raw, i + 1)
    ELSE IF raw[i] \in Digits \cup {"+", "-", "."}
         THEN IF i = 1 THEN [ok |-> TRUE, scheme |-> E, rest |-> raw]
              ELSE getSchemeFrom(raw, i + 1)
    ELSE IF raw[i] = ":"
         THEN IF i = 1 THEN [ok |-> FALSE, scheme |-> E, rest |-> raw]
              ELSE [ok |-> TRUE, scheme |-> SubSeq(raw, 1, i - 1),
                    rest |-> SubSeq(raw, i + 1, Len(raw))]
    ELSE [ok |-> TRUE, scheme |-> E, rest |-> raw]

\* validOptionalPort: "" or ":" followed by digits only
validOptionalPort(port) ==
    port = E \/ (port[1] = ":" /\ \A i \in 2..Len(port) : port[i] \in Digits)

\* the characters url.Parse accepts unescaped in a host
HostChars == Letters \cup Digits \cup {"-", "_", ".", "~", "!", "$", "&", "'", "(", ")",
                                     "*", "+", ",", ";", "=", ":", "[", "]", "<", ">"}

\* parseHost: whether the authority is accepted as a host
parseHostOK(host) ==
    /\ IF HasPrefix(host, S_lbr)
       THEN LET i == LastIndexOf(host, "]")
            IN i # 0 /\ validOptionalPort(SubSeq(host, i + 1, Len(host)))
       ELSE LET i == LastIndexOf(host, ":")
            IN i = 0 \/ validOptionalPort(SubSeq(host, i, Len(host)))
    /\ \A i \in 1..Len(host) : host[i] \in HostChars

\* url.Parse: [err, Scheme, Opaque, Host, Path]
URLOf(scheme, opaque, host, path) ==
    [err |-> FALSE, Scheme |-> scheme, Opaque |-> opaque, Host |-> host, Path |-> path]

URLErr == [err |-> TRUE, Scheme |-> E, Opaque |-> E, Host |-> E, Path |-> E]

urlParse(raw) ==
    IF \E i \in 1..Len(raw) : raw[i] \in {"\t", "\r", "\n"} THEN URLErr
    ELSE LET g == getSchemeFrom(raw, 1)
             rest == g.rest
         IN IF ~g.ok THEN URLErr
            ELSE IF ~HasPrefix(rest, S_slash) /\ g.scheme # E
                 THEN URLOf(g.scheme, rest, E, E)
            ELSE IF ~HasPrefix(rest, S_slash)
                    /\ Contains(Split(rest, "/")[1], S_colon)
                 THEN URLErr
            ELSE IF HasPrefix(rest, <<"/", "/">>)
                    /\ (g.scheme # E \/ ~HasPrefix(rest, <<"/", "/", "/">>))
                 THEN LET auth0 == SubSeq(rest, 3, Len(rest))
                          i == IndexOf(auth0, "/")
                          authority == IF i = 0 THEN auth0 ELSE SubSeq(auth0, 1, i - 1)
                          path == IF i = 0 THEN E ELSE SubSeq(auth0, i, Len(auth0))
                      IN IF parseHostOK(authority)
                         THEN URLOf(g.scheme, E, authority, path)
                         ELSE URLErr
            ELSE URLOf(g.scheme, E, E, rest)

\* URL.String
urlString(u) ==
    LET head == IF u.Scheme # E THEN u.Scheme \o S_colon ELSE E
    IN IF u.Opaque # E THEN head \o u.Opaque
       ELSE LET auth == IF u.Scheme # E \/ u.Host # E
                        THEN (IF u.Host # E \/ u.Path # E THEN <<"/", "/">> ELSE E) \o u.Host
                        ELSE E
                sep == IF u.Path # E /\ u.Path[1] # "/" /\ u.Host # E THEN S_slash ELSE E
                dot == IF head \o auth \o sep = E /\ Contains(Split(u.Path, "/")[1], S_colon)
                       THEN <<".", "/">> ELSE E
            IN head \o auth \o sep \o dot \o u.Path

\* net.SplitHostPort, called only on a host that contains ":"; the code drops
\* the error, so a failure leaves the empty host
SplitHostPort(hostport) ==
    LET i == LastIndexOf(hostport, ":") - 1
        n == Len(hostport)
        bad == [err |-> TRUE, host |-> E, port |-> E]
    IN IF i < 0 THEN bad
       ELSE IF hostport[1] = "["
            THEN LET end == IndexOf(hostport, "]") - 1
                 IN IF end < 0 \/ end + 1 # i THEN bad
                    ELSE IF Contains(Slice(hostport, 1, n), S_lbr)
                            \/ Contains(Slice(hostport, end + 1, n), <<"]">>) THEN bad
                    ELSE [err |-> FALSE, host |-> Slice(hostport, 1, end),
                          port |-> Slice(hostport, i + 1, n)]
       ELSE LET host == Slice(hostport, 0, i)
            IN IF Contains(host, S_colon) \/ Contains(hostport, S_lbr)
                  \/ Contains(hostport, <<"]">>) THEN bad
               ELSE [err |-> FALSE, host |-> host, port |-> Slice(hostport, i + 1, n)]

(***************************************************************************)
(* regexp.MatchString for the patterns the model uses: literal characters, *)
(* "." (any character) and "\" followed by a punctuation character (that   *)
(* character, literally), matched anywhere in the text.  A pattern ending  *)
(* in a lone "\" does not compile.  The model's lists hold no other        *)
(* metacharacter inside a regular expression that is evaluated.            *)
(***************************************************************************)
\* the pattern as a sequence of [any, ch]; <<[bad |-> TRUE]>>-terminated when invalid
RECURSIVE regexTokens(_)
regexTokens(p) ==
    IF p = E THEN << >>
    ELSE IF p[1] = "\\"
         THEN IF Len(p) = 1 THEN <<[bad |-> TRUE, any |-> FALSE, ch |-> ""]>>
              ELSE <<[bad |-> FALSE, any |-> FALSE, ch |-> p[2]]>>
                   \o regexTokens(SubSeq(p, 3, Len(p)))
    ELSE <<[bad |-> FALSE, any |-> (p[1] = "."), ch |-> p[1]]>> \o regexTokens(Tail(p))

\* regexp.MatchString: [matched, err]
MatchString(pattern, s) ==
    LET t == regexTokens(pattern)
    IN IF \E k \in 1..Len(t) : t[k].bad THEN [matched |-> FALSE, err |-> TRUE]
       ELSE [matched |-> \E i \in 0..(Len(s) - Len(t)) :
                            \A k \in 1..Len(t) : t[k].any \/ s[i + k] = t[k].ch,
             err |-> FALSE]

(***************************************************************************)
(* The rule variants and their match methods.                              *)
(***************************************************************************)
hostWildcardRule(pattern) == [kind |-> "host", pattern |-> pattern, prefixMatch |-> FALSE]

urlWildcardRule(pattern, prefixMatch) ==
    [kind |-> "url", pattern |-> pattern, prefixMatch |-> prefixMatch]

regexRule(pattern) == [kind |-> "regex", pattern |-> pattern, prefixMatch |-> FALSE]

whiteListRule(r) == [kind |-> "white", r |-> r]

\* the type assertion  rule.(*whiteListRule)
isWhiteListRule(rule) == rule.kind = "white"

\* the rule a whiteListRule wraps, the rule itself otherwise
innerRule(rule) == IF isWhiteListRule(rule) THEN rule.r ELSE rule

\* if len(u.Scheme) == 0 { u.Scheme = "https" }
defaultScheme(u) == IF Len(u.Scheme) = 0 THEN [u EXCEPT !.Scheme = S_https] ELSE u

hostWildcardMatch(r, u) == Contains(u.Host, r.pattern)

urlWildcardMatch(r, u) ==
    IF r.prefixMatch THEN HasPrefix(urlString(defaultScheme(u)), r.pattern)
    ELSE Contains(urlString(defaultScheme(u)), r.pattern)

regexMatch(r, u) == MatchString(r.pattern, urlString(defaultScheme(u))).matched

baseMatch(r, u) ==
    CASE r.kind = "host" -> hostWildcardMatch(r, u)
      [] r.kind = "url" -> urlWildcardMatch(r, u)
      [] r.kind = "regex" -> regexMatch(r, u)

\* rule.match(u), through the whiteListRule wrapper when there is one
match(rule, u) == IF isWhiteListRule(rule) THEN baseMatch(rule.r, u) ELSE baseMatch(rule, u)

\* the URL after rule.match(u): the URL-based variants write u.Scheme
urlAfterMatch(rule, u) ==
    IF innerRule(rule).kind \in {"url", "regex"} THEN defaultScheme(u) ELSE u

(***************************************************************************)
(* GFWList: the rule map (a nil map reads as an empty one) and the rule    *)
(* list.                                                                   *)
(***************************************************************************)
EmptyMap == [k \in {} |-> k]

\* the zero GFWList: nil ruleMap, nil ruleList
NilGFWList == [ruleMap |-> EmptyMap, ruleList |-> << >>]

\* m[key] = rule
MapSet(m, key, rule) == [k \in DOMAIN m \cup {key} |-> IF k = key THEN rule ELSE m[k]]

(***************************************************************************)
(* fastMatchDomain.                                                        *)
(***************************************************************************)
\* ss[i] (0-based) panics at run time unless 0 <= i < len(ss)
IndexOK(ss, i) == 0 <= i /\ i < Len(ss)

\* hasRoot without the length check
hasRootUnguarded(ss) == TRUE

\* line 122: the guard of the root-domain computation
hasRoot(ss) == Len(ss) > 2

\* widenRoot with the threshold off by one
widenRootBelow3(ss) == Len(ss[Len(ss) - 1]) < 3 /\ Len(ss) >= 3

\* line 124: whether the candidate root is widened to three labels
widenRoot(ss) == Len(ss[Len(ss) - 1]) < 4 /\ Len(ss) >= 3

\* lines 121-127: [panic, root]
rootDomainOf(domain) ==
    LET ss == Split(domain, ".")
        n == Len(ss)
    IN IF ~hasRoot(ss) THEN [panic |-> FALSE, root |-> domain]
       ELSE IF ~IndexOK(ss, n - 2) \/ ~IndexOK(ss, n - 1) THEN [panic |-> TRUE, root |-> E]
       ELSE IF ~widenRoot(ss) THEN [panic |-> FALSE, root |-> ss[n - 1] \o S_dot \o ss[n]]
       ELSE IF ~IndexOK(ss, n - 3) THEN [panic |-> TRUE, root |-> E]
       ELSE [panic |-> FALSE, root |-> ss[n - 2] \o S_dot \o ss[n - 1] \o S_dot \o ss[n]]

\* lines 112-117: the host without its port
domainOf(u) == IF Contains(u.Host, S_colon) THEN SplitHostPort(u.Host).host ELSE u.Host

\* [panic, exist, matchResult, keys, rule]: keys are the map keys looked up, in
\* order; rule is the rule found (meaningful when exist)
fastMatchDomain(ruleMap, u) ==
    LET domain == domainOf(u)
        miss == [panic |-> FALSE, exist |-> FALSE, matchResult |-> FALSE,
                 keys |-> <<domain>>, rule |-> hostWildcardRule(E)]
        hit(keys, rule) ==
            [panic |-> FALSE, exist |-> TRUE,
             matchResult |-> IF isWhiteListRule(rule) THEN ~match(rule, u) ELSE match(rule, u),
             keys |-> keys, rule |-> rule]
    IN IF domain \in DOMAIN ruleMap THEN hit(<<domain>>, ruleMap[domain])
       ELSE LET rd == rootDomainOf(domain)
            IN IF rd.panic THEN [miss EXCEPT !.panic = TRUE]
               ELSE IF rd.root \in DOMAIN ruleMap
                    THEN hit(<<domain, rd.root>>, ruleMap[rd.root])
               ELSE [miss EXCEPT !.keys = <<domain, rd.root>>]

(***************************************************************************)
(* IsBlockedByGFW.                                                         *)
(***************************************************************************)
\* scanRuleList that skips a matching whitelist rule instead of returning false
RECURSIVE scanSkippingWhite(_, _, _)
scanSkippingWhite(ruleList, i, u) ==
    IF i > Len(ruleList) THEN [result |-> FALSE, at |-> 0, evaluated |-> i - 1]
    ELSE IF match(ruleList[i], u) /\ ~isWhiteListRule(ruleList[i])
         THEN [result |-> TRUE, at |-> i, evaluated |-> i]
    ELSE scanSkippingWhite(ruleList, i + 1, urlAfterMatch(ruleList[i], u))

\* lines 154-162: [result, at, evaluated]: at is the index of the rule that
\* decided (0 when none matched), evaluated the number of rules whose match ran
RECURSIVE scanRuleList(_, _, _)
scanRuleList(ruleList, i, u) ==
    IF i > Len(ruleList) THEN [result |-> FALSE, at |-> 0, evaluated |-> i - 1]
    ELSE IF match(ruleList[i], u)
         THEN [result |-> ~isWhiteListRule(ruleList[i]), at |-> i, evaluated |-> i]
    ELSE scanRuleList(ruleList, i + 1, urlAfterMatch(ruleList[i], u))

\* the call's outcome: result is the value returned; via names the return
\* statement taken; keys, rule come from fastMatchDomain; at, evaluated from the scan
Outcome(panic, result, via, keys, rule, at, evaluated) ==
    [panic |-> panic, result |-> result, via |-> via, keys |-> keys, rule |-> rule,
     at |-> at, evaluated |-> evaluated]

\* afterFastMatch that trusts the fast path only when it blocks
afterFastMatchIfBlocked(f, ruleList, u) ==
    IF f.panic THEN Outcome(TRUE, FALSE, "panic", f.keys, f.rule, 0, 0)
    ELSE IF f.exist /\ f.matchResult
         THEN Outcome(FALSE, f.matchResult, "fast", f.keys, f.rule, 0, 0)
    ELSE LET sc == scanRuleList(ruleList, 1, u)
         IN Outcome(FALSE, sc.result, IF sc.at = 0 THEN "default" ELSE "scan", f.keys,
                    IF sc.at = 0 THEN f.rule ELSE ruleList[sc.at], sc.at, sc.evaluated)

\* the part of IsBlockedByGFW after fastMatchDomain returned f
afterFastMatch(f, ruleList, u) ==
    IF f.panic THEN Outcome(TRUE, FALSE, "panic", f.keys, f.rule, 0, 0)
    ELSE IF f.exist THEN Outcome(FALSE, f.matchResult, "fast", f.keys, f.rule, 0, 0)
    ELSE LET sc == scanRuleList(ruleList, 1, u)
         IN Outcome(FALSE, sc.result, IF sc.at = 0 THEN "default" ELSE "scan", f.keys,
                    IF sc.at = 0 THEN f.rule ELSE ruleList[sc.at], sc.at, sc.evaluated)

IsBlockedByGFW(gfwList, host) ==
    LET u == urlParse(host)
    IN IF u.err THEN Outcome(FALSE, FALSE, "parse", << >>, hostWildcardRule(E), 0, 0)
       ELSE afterFastMatch(fastMatchDomain(gfwList.ruleMap, u), gfwList.ruleList, u)

(***************************************************************************)
(* fetchGFWList: the decoding of the response body, then the line loop.    *)
(***************************************************************************)
\* base64.StdEncoding.EncodedLen: the length of the body that encodes n bytes
\* (a body without line breaks)
EncodedLen(n) == ((n + 2) \div 3) * 4

\* base64.StdEncoding.DecodedLen
DecodedLen(n) == (n \div 4) * 3

\* lines 182-183: out is allocated with DecodedLen(len(body)) bytes and Decode
\* fills the first len(text) of them; the count it returns is dropped, so the
\* bytes after the text stay zero
decodeOut(text) ==
    text \o [i \in 1..(DecodedLen(EncodedLen(Len(text))) - Len(text)) |-> NUL]

\* bufio.Reader.ReadLine: [eof, line, rest]
ReadLine(bytes) ==
    IF bytes = E THEN [eof |-> TRUE, line |-> E, rest |-> E]
    ELSE LET i == IndexOf(bytes, NL)
         IN IF i = 0 THEN [eof |-> FALSE, line |-> bytes, rest |-> E]
            ELSE [eof |-> FALSE,
                  line |-> IF i > 1 /\ bytes[i - 1] = "\r" THEN SubSeq(bytes, 1, i - 2)
                           ELSE SubSeq(bytes, 1, i - 1),
                  rest |-> SubSeq(bytes, i + 1, Len(bytes))]

\* line 205: a comment, a header or an empty line
isSkipped(str) == Len(str) = 0 \/ HasPrefix(str, S_bang) \/ HasPrefix(str, S_lbr)

\* line 219: the bounds of  str[1 : len(str)-1]
regexSliceOK(str) == SliceOK(str, 1, Len(str) - 1)

\* lines 218-239, on the text left after "@@": [panic, rule, fastMatch, str]
parseBase(str) ==
    LET made(rule, fastMatch, key) ==
            [panic |-> FALSE, rule |-> rule, fastMatch |-> fastMatch, str |-> key]
    IN IF HasPrefix(str, S_slash) /\ HasSuffix(str, S_slash)
       THEN IF ~regexSliceOK(str)
            THEN [panic |-> TRUE, rule |-> regexRule(E), fastMatch |-> FALSE, str |-> str]
            ELSE made(regexRule(Slice(str, 1, Len(str) - 1)), FALSE,
                      Slice(str, 1, Len(str) - 1))
       ELSE IF HasPrefix(str, S_bar2)
            THEN made(hostWildcardRule(Slice(str, 2, Len(str))), TRUE, Slice(str, 2, Len(str)))
       ELSE IF HasPrefix(str, S_bar)
            THEN made(urlWildcardRule(Slice(str, 1, Len(str)), TRUE), FALSE, str)
       ELSE IF ~Contains(str, S_slash)
            THEN made(hostWildcardRule(str), TRUE,
                      IF HasPrefix(str, S_dot) THEN Slice(str, 1, Len(str)) ELSE str)
       ELSE made(urlWildcardRule(str, FALSE), FALSE, str)

\* lines 209-242, on a line that is not skipped: [panic, rule, fastMatch, str]
parseRule(str) ==
    LET isWhileListRule == HasPrefix(str, S_at2)
        b == parseBase(IF isWhileListRule THEN Slice(str, 2, Len(str)) ELSE str)
    IN IF b.panic \/ ~isWhileListRule THEN b ELSE [b EXCEPT !.rule = whiteListRule(b.rule)]

\* lines 243-247
storeRule(gfwList, p) ==
    IF p.fastMatch THEN [gfwList EXCEPT !.ruleMap = MapSet(gfwList.ruleMap, p.str, p.rule)]
    ELSE [gfwList EXCEPT !.ruleList = Append(gfwList.ruleList, p.rule)]

\* one iteration of the loop on the line read: [panic, skipped, gfwList]
loadLine(gfwList, line) ==
    LET str == TrimSpace(line)
    IN IF isSkipped(str) THEN [panic |-> FALSE, skipped |-> TRUE, gfwList |-> gfwList]
       ELSE LET p == parseRule(str)
            IN IF p.panic THEN [panic |-> TRUE, skipped |-> FALSE, gfwList |-> gfwList]
               ELSE [panic |-> FALSE, skipped |-> FALSE, gfwList |-> storeRule(gfwList, p)]

\* the whole loop over the decoded bytes: [panic, gfwList]
RECURSIVE loadFrom(_, _)
loadFrom(gfwList, bytes) ==
    LET rl == ReadLine(bytes)
    IN IF rl.eof THEN [panic |-> FALSE, gfwList |-> gfwList]
       ELSE LET it == loadLine(gfwList, rl.line)
            IN IF it.panic THEN [panic |-> TRUE, gfwList |-> gfwList]
               ELSE loadFrom(it.gfwList, rl.rest)

\* lines 191-250
fetchGFWList(bytes) == loadFrom([ruleMap |-> EmptyMap, ruleList |-> << >>], bytes)

(***************************************************************************)
(* The inputs of the model.                                                *)
(***************************************************************************)
\* all sequences over S of length 0..n
RECURSIVE SeqsUpTo(_, _)
SeqsUpTo(S, n) ==
    IF n = 0 THEN {<< >>}
    ELSE LET shorter == SeqsUpTo(S, n - 1)
         IN shorter \cup {Append(t, x) : t \in {t \in shorter : Len(t) = n - 1}, x \in S}

L_block_example == S_bar2 \o D_example_com
L_white_safe == S_at2 \o S_bar2 \o D_safe_example_com
L_block_abc == S_bar2 \o D_abc_com
L_block_www_abc == S_bar2 \o D_www_abc_com
L_dot_example == S_dot \o D_example_com
L_white_dot_example == S_at2 \o S_dot \o D_example_com
L_white_re_safe == S_at2 \o S_slash \o R_safe_example_com \o S_slash
L_re_example == S_slash \o R_example_com \o S_slash
L_prefix_www_abc == S_bar \o S_http \o S_css \o D_www_abc_com
L_substr_example_x == D_example_com \o S_slash \o W_x
L_block_example_path == S_bar2 \o D_example_com \o S_slash \o W_x
L_block_empty == S_bar2
L_re_invalid == <<"/", "\\", "/">>
L_comment == S_bang \o W_x
L_padded_abc == S_sp \o L_block_abc \o <<"\r">>

\* the list lines of the matcher's specification
MatchLines == {L_block_example, L_white_safe, L_block_abc, L_block_www_abc, L_dot_example,
               L_white_dot_example, L_white_re_safe, L_re_example, L_prefix_www_abc,
               L_substr_example_x, L_block_example_path, L_block_empty, L_re_invalid,
               L_comment}

\* the lines combined into lists of several lines
CoreLines == {L_block_example, L_white_safe, L_block_abc, L_white_re_safe, L_re_example,
              L_substr_example_x, L_prefix_www_abc}

\* a list text: the lines, each ended by a newline when terminated, the last
\* one left open otherwise
TextOf(lines, terminated) ==
    Join(lines, <<NL>>) \o (IF terminated /\ lines # << >> THEN <<NL>> ELSE E)

\* what fetchGFWList decodes from the body that encodes the terminated lines
ListOf(lines) == decodeOut(TextOf(lines, TRUE))

\* list texts: one line of MatchLines, or at most MaxLines lines of CoreLines
MatchTexts ==
    {TextOf(ls, t) : ls \in {<<l>> : l \in MatchLines} \cup SeqsUpTo(CoreLines, MaxLines),
                     t \in BOOLEAN}

\* the characters of the exhaustively enumerated lines
LineAlphabet == {"/", "|", "@", ".", "a", "!", "[", " "}

\* every line of at most MaxLineLen characters over LineAlphabet
ShortLines == SeqsUpTo(LineAlphabet, MaxLineLen)

\* the structured lines of the loader's specification
LoadLines == MatchLines \cup {L_padded_abc, S_slash, S_at2 \o S_slash,
                              S_at2 \o S_bar2 \o S_bar \o W_x}

\* list texts: one short line, or at most MaxLines structured lines
LoadTexts ==
    {TextOf(ls, t) : ls \in {<<l>> : l \in ShortLines} \cup SeqsUpTo(LoadLines, MaxLines),
                     t \in BOOLEAN}

U(host) == S_http \o S_css \o host

\* the arguments of IsBlockedByGFW
Hosts == {U(D_example_com), U(D_safe_example_com), U(D_sub_safe_example_com),
          U(D_www_example_com \o S_colon \o W_80), U(D_example_com \o S_slash \o W_x),
          U(D_abc_com), U(D_www_abc_com), U(D_x_www_abc_com),
          U(D_www_abc_com \o S_colon \o W_80), U(W_com), U(W_v6), U(W_v6 \o S_colon \o W_80),
          D_example_com, E,
          U(<<"a", " ", "b">>), <<"1", ":", "8">>, <<":", "x">>, U(<<"a", ":", "b">>)}

(***************************************************************************)
(* State.                                                                  *)
(***************************************************************************)
VARIABLES
    out,        \* fetchGFWList: the buffer the body was decoded into
    rest,       \* fetchGFWList: the bytes not yet read
    fetched,    \* fetchGFWList: the GFWList under construction
    nstored,    \* fetchGFWList: number of rules stored so far (lines 244, 246)
    lpc,        \* NewGFWList: "none", "reading", "fetched", "installed", "panic"
    gfw,        \* the GFWList queried: [ruleMap, ruleList]
    mutex,      \* gfw.mutex: Free or its holder
    qin,        \* the argument of the last IsBlockedByGFW call, NoCall before it
    qout,       \* the outcome of that call
    qpc,        \* per querying goroutine: "idle", "fast", "scan", "unlock", "done"
    qarg,       \* per goroutine: the argument of its call
    qfast,      \* per goroutine: what its fastMatchDomain returned
    qres,       \* per goroutine: the value its call returns
    qseen,      \* per goroutine: the GFWList installed when it took the lock
    qread,      \* per goroutine: the ruleMap and the ruleList it read
    spc,        \* the goroutine calling setFrom: "idle", "map", "list", "unlock"
    starget,    \* setFrom's argument
    installed   \* the argument of the last setFrom that returned

loaderVars == <<out, rest, fetched, nstored, lpc>>
callVars == <<qin, qout>>
threadVars == <<qpc, qarg, qfast, qres, qseen, qread, spc, starget, installed>>
vars == <<out, rest, fetched, nstored, lpc, gfw, mutex, qin, qout, qpc, qarg, qfast, qres,
          qseen, qread, spc, starget, installed>>

Queriers == 1..NumQueriers
Free == <<"free">>
Setter == <<"setFrom">>
Holder(q) == <<"IsBlockedByGFW", q>>
NoCall == <<"no call">>
NoOutcome == Outcome(FALSE, FALSE, "none", << >>, hostWildcardRule(E), 0, 0)
NoFast == fastMatchDomain(EmptyMap, URLOf(E, E, E, E))
NoRead == [mapRead |-> FALSE, ruleMap |-> EmptyMap, listRead |-> FALSE, ruleList |-> << >>]

\* the goroutines are at rest on the GFWList g
ThreadsIdle(g) ==
    /\ qpc = [q \in Queriers |-> "idle"]
    /\ qarg = [q \in Queriers |-> E]
    /\ qfast = [q \in Queriers |-> NoFast]
    /\ qres = [q \in Queriers |-> FALSE]
    /\ qseen = [q \in Queriers |-> g]
    /\ qread = [q \in Queriers |-> NoRead]
    /\ spc = "idle"
    /\ starget = g
    /\ installed = g

\* fetchGFWList has decoded the body that encodes text and is about to read out
LoaderAt(text) ==
    /\ out = decodeOut(text)
    /\ rest = decodeOut(text)
    /\ fetched = NilGFWList
    /\ nstored = 0

(***************************************************************************)
(* NewGFWList: fetchGFWList line by line, then setFrom.                    *)
(***************************************************************************)
\* one iteration of the loop of lines 196-248
LoadLine ==
    /\ lpc = "reading"
    /\ ~ReadLine(rest).eof
    /\ LET rl == ReadLine(rest)
           it == loadLine(fetched, rl.line)
       IN IF it.panic
          THEN /\ lpc' = "panic"
               /\ UNCHANGED <<rest, fetched, nstored>>
          ELSE /\ rest' = rl.rest
               /\ fetched' = it.gfwList
               /\ nstored' = IF it.skipped THEN nstored ELSE nstored + 1
               /\ lpc' = "reading"
    /\ UNCHANGED <<out, gfw, mutex, callVars, threadVars>>

\* lines 198-200 and 250: end of input, the list is returned
LoadEOF ==
    /\ lpc = "reading"
    /\ ReadLine(rest).eof
    /\ lpc' = "fetched"
    /\ UNCHANGED <<out, rest, fetched, nstored, gfw, mutex, callVars, threadVars>>

\* lines 94-100 and setFrom, with no other goroutine around
Install ==
    /\ lpc = "fetched"
    /\ mutex = Free
    /\ gfw' = [ruleMap |-> fetched.ruleMap, ruleList |-> fetched.ruleList]
    /\ lpc' = "installed"
    /\ UNCHANGED <<out, rest, fetched, nstored, mutex, callVars, threadVars>>

\* IsBlockedByGFW(host), the whole call under the mutex, on the list NewGFWList
\* returned or on a zero GFWList
Query(host) ==
    /\ lpc \in {"installed", "none"}
    /\ mutex = Free
    /\ qin' = host
    /\ qout' = IsBlockedByGFW(gfw, host)
    /\ UNCHANGED <<loaderVars, gfw, mutex, threadVars>>

InitLoad ==
    /\ \E b \in LoadTexts : LoaderAt(b)
    /\ lpc = "reading"
    /\ gfw = NilGFWList
    /\ mutex = Free
    /\ qin = NoCall
    /\ qout = NoOutcome
    /\ ThreadsIdle(NilGFWList)

NextLoad == LoadLine \/ LoadEOF

\* the loader alone, on LoadTexts
SpecLoad == InitLoad /\ [][NextLoad]_vars

Init ==
    /\ \/ \E b \in MatchTexts : LoaderAt(b) /\ lpc = "reading"
       \/ LoaderAt(E) /\ lpc = "none"
    /\ gfw = NilGFWList
    /\ mutex = Free
    /\ qin = NoCall
    /\ qout = NoOutcome
    /\ ThreadsIdle(NilGFWList)

Next == LoadLine \/ LoadEOF \/ Install \/ \E host \in Hosts : Query(host)

\* NewGFWList on MatchTexts, then calls of IsBlockedByGFW
Spec == Init /\ [][Next]_vars

(***************************************************************************)
(* Goroutines calling IsBlockedByGFW and setFrom on one GFWList, statement *)
(* by statement.                                                           *)
(***************************************************************************)
\* the lists setFrom is given: what fetchGFWList builds from these texts
ConcLists == {<<L_block_example>>,
              <<L_re_example>>,
              <<L_white_safe, S_at2 \o L_block_example, L_prefix_www_abc>>}

RuleSets == {fetchGFWList(ListOf(ls)).gfwList : ls \in ConcLists}

ConcHosts == {U(D_example_com), U(D_www_abc_com), U(<<"a", " ", "b">>)}

\* canLock of a mutex that excludes nobody
canLockAlways(m) == TRUE

\* sync.Mutex.Lock returns once the mutex is free
canLock(m) == m = Free

\* line 141: gfw.mutex.Lock()
QLock(q, host) ==
    /\ qpc[q] \in {"idle", "done"}
    /\ canLock(mutex)
    /\ mutex' = Holder(q)
    /\ qarg' = [qarg EXCEPT ![q] = host]
    /\ qseen' = [qseen EXCEPT ![q] = installed]
    /\ qread' = [qread EXCEPT ![q] = NoRead]
    /\ qpc' = [qpc EXCEPT ![q] = "fast"]
    /\ UNCHANGED <<loaderVars, gfw, callVars, qfast, qres, spc, starget, installed>>

\* lines 144-152: url.Parse, then fastMatchDomain on gfw.ruleMap
QFast(q) ==
    /\ qpc[q] = "fast"
    /\ LET u == urlParse(qarg[q])
           f == fastMatchDomain(gfw.ruleMap, u)
       IN IF u.err
          THEN /\ qres' = [qres EXCEPT ![q] = FALSE]
               /\ qpc' = [qpc EXCEPT ![q] = "unlock"]
               /\ UNCHANGED <<qfast, qread>>
          ELSE /\ qfast' = [qfast EXCEPT ![q] = f]
               /\ qread' = [qread EXCEPT ![q].mapRead = TRUE, ![q].ruleMap = gfw.ruleMap]
               /\ qres' = [qres EXCEPT ![q] = IF f.exist THEN f.matchResult ELSE FALSE]
               /\ qpc' = [qpc EXCEPT ![q] = IF f.exist THEN "unlock" ELSE "scan"]
    /\ UNCHANGED <<loaderVars, gfw, mutex, callVars, qarg, qseen, spc, starget, installed>>

\* lines 154-162: the scan of gfw.ruleList
QScan(q) ==
    /\ qpc[q] = "scan"
    /\ qres' = [qres EXCEPT ![q] = afterFastMatch(qfast[q], gfw.ruleList, urlParse(qarg[q])).result]
    /\ qread' = [qread EXCEPT ![q].listRead = TRUE, ![q].ruleList = gfw.ruleList]
    /\ qpc' = [qpc EXCEPT ![q] = "unlock"]
    /\ UNCHANGED <<loaderVars, gfw, mutex, callVars, qarg, qfast, qseen, spc, starget, installed>>

\* line 142: the deferred gfw.mutex.Unlock(), and the return
QUnlock(q) ==
    /\ qpc[q] = "unlock"
    /\ mutex' = Free
    /\ qpc' = [qpc EXCEPT ![q] = "done"]
    /\ UNCHANGED <<loaderVars, gfw, callVars, qarg, qfast, qres, qseen, qread, spc, starget,
                   installed>>

\* line 104: gfw.mutex.Lock() in setFrom(target)
SLock(target) ==
    /\ spc = "idle"
    /\ canLock(mutex)
    /\ mutex' = Setter
    /\ starget' = target
    /\ spc' = "map"
    /\ UNCHANGED <<loaderVars, gfw, callVars, qpc, qarg, qfast, qres, qseen, qread, installed>>

\* line 107: gfw.ruleMap = target.ruleMap
SMap ==
    /\ spc = "map"
    /\ gfw' = [gfw EXCEPT !.ruleMap = starget.ruleMap]
    /\ spc' = "list"
    /\ UNCHANGED <<loaderVars, mutex, callVars, qpc, qarg, qfast, qres, qseen, qread, starget,
                   installed>>

\* line 108: gfw.ruleList = target.ruleList
SList ==
    /\ spc = "list"
    /\ gfw' = [gfw EXCEPT !.ruleList = starget.ruleList]
    /\ spc' = "unlock"
    /\ UNCHANGED <<loaderVars, mutex, callVars, qpc, qarg, qfast, qres, qseen, qread, starget,
                   installed>>

\* line 105: the deferred gfw.mutex.Unlock(); setFrom returns
SUnlock ==
    /\ spc = "unlock"
    /\ mutex' = Free
    /\ installed' = starget
    /\ spc' = "idle"
    /\ UNCHANGED <<loaderVars, gfw, callVars, qpc, qarg, qfast, qres, qseen, qread, starget>>

\* a GFWList that NewGFWList returned, and goroutines at rest
InitConc ==
    /\ LoaderAt(E)
    /\ lpc = "installed"
    /\ \E g \in RuleSets : gfw = g /\ ThreadsIdle(g)
    /\ mutex = Free
    /\ qin = NoCall
    /\ qout = NoOutcome

NextConc ==
    \/ \E q \in Queriers, host \in ConcHosts : QLock(q, host)
    \/ \E q \in Queriers : QFast(q) \/ QScan(q) \/ QUnlock(q)
    \/ \E target \in RuleSets : SLock(target)
    \/ SMap
    \/ SList
    \/ SUnlock

\* concurrent IsBlockedByGFW and setFrom calls
SpecConc == InitConc /\ [][NextConc]_vars

(***************************************************************************)
(* Properties.                                                             *)
(***************************************************************************)
Called == qin # NoCall

\* the rule the exact-domain lookup or, when that misses, the root-domain
\* lookup finds in ruleMap: a sequence of one rule, or empty
FoundInIndex(ruleMap, u) ==
    LET d == domainOf(u)
        r == rootDomainOf(d).root
    IN IF d \in DOMAIN ruleMap THEN <<ruleMap[d]>>
       ELSE IF r \in DOMAIN ruleMap THEN <<ruleMap[r]>>
       ELSE << >>

\* what one rule decides: the negation of its match when whitelist-wrapped
Verdict(rule, u) == IF isWhiteListRule(rule) THEN ~match(rule, u) ELSE match(rule, u)

\* the host without its port; empty when the port cannot be split off
PortStripped(h) ==
    IF ~Contains(h, S_colon) THEN h
    ELSE LET i == LastIndexOf(h, ":")
         IN IF h[1] = "["
            THEN IF i > 2 /\ h[i - 1] = "]" /\ IndexOf(h, "]") = i - 1
                 THEN SubSeq(h, 2, i - 2) ELSE E
            ELSE IF Contains(SubSeq(h, 1, i - 1), S_colon) THEN E ELSE SubSeq(h, 1, i - 1)

\* the candidate root of the heuristic, by the number of labels
CandidateRoot(d) ==
    LET ls == Split(d, ".")
        n == Len(ls)
    IN IF n <= 2 THEN d
       ELSE IF Len(ls[n - 1]) < 4 THEN Join(SubSeq(ls, n - 2, n), S_dot)
       ELSE Join(SubSeq(ls, n - 1, n), S_dot)

\* the rules of the lines that are not fast-path eligible, in line order
RECURSIVE NonFastRules(_)
NonFastRules(lines) ==
    IF lines = << >> THEN << >>
    ELSE LET str == TrimSpace(lines[1])
         IN (IF isSkipped(str) \/ parseRule(str).fastMatch THEN << >>
             ELSE <<parseRule(str).rule>>) \o NonFastRules(Tail(lines))

\* the number of lines that are not skipped
RECURSIVE EligibleLines(_)
EligibleLines(lines) ==
    IF lines = << >> THEN 0
    ELSE (IF isSkipped(TrimSpace(lines[1])) THEN 0 ELSE 1) + EligibleLines(Tail(lines))

\* the lines of the decoded bytes: the pieces between newlines, without the
\* empty piece after a final newline
PhysicalLines(bytes) ==
    LET pieces == Split(bytes, NL)
    IN IF pieces[Len(pieces)] = E THEN SubSeq(pieces, 1, Len(pieces) - 1) ELSE pieces

\* C1: every IsBlockedByGFW call returns the two-tier match over the one
\* GFWList that the last completed setFrom before its Lock installed: the
\* ruleMap and the ruleList it reads are both that list's, and the list does
\* not change while the call holds the mutex.
C1_QuerySeesOneInstalledSet ==
    \A q \in Queriers :
        /\ qpc[q] \in {"fast", "scan"} => gfw = qseen[q]
        /\ qpc[q] \in {"unlock", "done"} =>
              /\ qres[q] = IsBlockedByGFW(qseen[q], qarg[q]).result
              /\ qread[q].mapRead => qread[q].ruleMap = qseen[q].ruleMap
              /\ qread[q].listRead => qread[q].ruleList = qseen[q].ruleList

\* two completed calls with the same argument, one before and one after a
\* setFrom, that read different lists and returned different results
C1_Witness ==
    \E q1, q2 \in Queriers :
        /\ qpc[q1] = "done" /\ qpc[q2] = "done"
        /\ qarg[q1] = qarg[q2]
        /\ qseen[q1] # qseen[q2]
        /\ qres[q1] # qres[q2]
        /\ qread[q2].listRead

\* C2: when the exact-domain or the root-domain lookup finds a rule in
\* ruleMap, IsBlockedByGFW returns that rule's verdict alone and evaluates no
\* rule of ruleList; ruleList is scanned only when both lookups miss.
C2_StrictTwoPhase ==
    (Called /\ ~urlParse(qin).err) =>
        LET u == urlParse(qin)
            found == FoundInIndex(gfw.ruleMap, u)
        IN /\ found # << >> =>
                 /\ qout.via = "fast"
                 /\ qout.result = Verdict(found[1], u)
                 /\ qout.rule = found[1]
                 /\ qout.evaluated = 0 /\ qout.at = 0
           /\ found = << >> =>
                 /\ qout.via \in {"scan", "default"}
                 /\ qout.evaluated = scanRuleList(gfw.ruleList, 1, u).evaluated

\* a fast-path hit that decides against a ruleList rule that matches the URL
C2_Witness ==
    /\ Called /\ ~urlParse(qin).err
    /\ qout.via = "fast"
    /\ scanRuleList(gfw.ruleList, 1, urlParse(qin)).at # 0
    /\ scanRuleList(gfw.ruleList, 1, urlParse(qin)).result # qout.result

\* C3: ruleList holds the rules of the lines that are not fast-path eligible
\* in line order, and when the fast path misses the first rule of ruleList that
\* matches decides (false if whitelist-wrapped, true otherwise), no later rule
\* is evaluated, and the result is false when none matches; so the list
\* "@@/safe\.example\.com/", "/example\.com/" does not block a URL matching
\* both, and the swapped list does.
C3_FirstMatchWins ==
    /\ lpc \in {"fetched", "installed"} => fetched.ruleList = NonFastRules(PhysicalLines(out))
    /\ lpc = "installed" => gfw.ruleList = NonFastRules(PhysicalLines(out))
    /\ (Called /\ ~urlParse(qin).err /\ FoundInIndex(gfw.ruleMap, urlParse(qin)) = << >>) =>
          LET u == urlParse(qin)
              M == {i \in 1..Len(gfw.ruleList) : match(gfw.ruleList[i], u)}
          IN IF M = {} THEN qout.result = FALSE /\ qout.at = 0
             ELSE LET i == CHOOSE i \in M : \A j \in M : i <= j
                  IN /\ qout.at = i
                     /\ qout.evaluated = i
                     /\ qout.rule = gfw.ruleList[i]
                     /\ qout.result = ~isWhiteListRule(gfw.ruleList[i])
    /\ (lpc = "installed" /\ qin = U(D_safe_example_com)) =>
          /\ out = ListOf(<<L_white_re_safe, L_re_example>>) => qout.result = FALSE
          /\ out = ListOf(<<L_re_example, L_white_re_safe>>) => qout.result = TRUE

\* the whitelist regex decided, before a blocking regex that matches too
C3_Witness ==
    /\ lpc = "installed"
    /\ out = ListOf(<<L_white_re_safe, L_re_example>>)
    /\ qin = U(D_safe_example_com)
    /\ qout.via = "scan" /\ qout.at = 1 /\ qout.result = FALSE
    /\ match(gfw.ruleList[2], urlParse(qin))

C5_ParserTotal ==
    /\ lpc # "panic"
    /\ lpc = "fetched" => nstored = EligibleLines(PhysicalLines(out))

\* C6: every entry of ruleMap is a host-wildcard rule (possibly
\* whitelist-wrapped) under a pure domain token: no "/" and no "|" in the key
\* or in the pattern.
C6_IndexHoldsPureDomains ==
    \A k \in DOMAIN fetched.ruleMap :
        /\ innerRule(fetched.ruleMap[k]).kind = "host"
        /\ ~Contains(k, S_slash) /\ ~Contains(k, S_bar)
        /\ ~Contains(innerRule(fetched.ruleMap[k]).pattern, S_slash)
        /\ ~Contains(innerRule(fetched.ruleMap[k]).pattern, S_bar)

\* the inputs that are no URL
Malformed == {U(<<"a", " ", "b">>), <<"1", ":", "8">>, <<":", "x">>, U(<<"a", ":", "b">>)}

\* C7: IsBlockedByGFW never panics, whatever the list (a zero GFWList
\* included) and the input; an input that does not parse as a URL gives false
\* with no lookup and no rule evaluated.
C7_FailOpen ==
    /\ ~qout.panic
    /\ qout.result \in BOOLEAN
    /\ (Called /\ (urlParse(qin).err \/ qin \in Malformed)) =>
          /\ qout.result = FALSE
          /\ qout.via = "parse"
          /\ qout.keys = << >>
          /\ qout.evaluated = 0

\* a malformed input on an installed list with fast-path and fallback rules
C7_Witness ==
    /\ lpc = "installed"
    /\ DOMAIN gfw.ruleMap # {} /\ gfw.ruleList # << >>
    /\ qin \in Malformed
    /\ qout.via = "parse"

\* C8: the pattern of every fast-path rule equals its key (the text with one
\* leading "." stripped), and with the single line ".example.com" the URL
\* http://example.com is blocked.
C8_PatternEqualsKey ==
    /\ \A k \in DOMAIN fetched.ruleMap : innerRule(fetched.ruleMap[k]).pattern = k
    /\ (/\ lpc = "installed"
        /\ out \in {decodeOut(L_dot_example), ListOf(<<L_dot_example>>)}
        /\ qin = U(D_example_com)) =>
          qout.result = TRUE

\* C9: with the single line "||D", D of two labels, stored as the rule D,
\* every URL whose host is D or a subdomain of D, with or without a port, is
\* blocked.
C9_SubdomainsBlocked ==
    \A D \in {D_example_com, D_abc_com} :
        (/\ lpc = "installed" /\ out \in {decodeOut(S_bar2 \o D), ListOf(<<S_bar2 \o D>>)}
         /\ D \in DOMAIN gfw.ruleMap /\ gfw.ruleMap[D] = hostWildcardRule(D)
         /\ Called /\ ~urlParse(qin).err
         /\ \/ PortStripped(urlParse(qin).Host) = D
            \/ HasSuffix(PortStripped(urlParse(qin).Host), S_dot \o D))
        => qout.result = TRUE

\* C10: whenever IsBlockedByGFW returns true, the rule that decided is not
\* whitelist-wrapped and matches the URL.
C10_WhitelistNeverBlocks ==
    (Called /\ qout.result = TRUE) =>
        /\ ~isWhiteListRule(qout.rule)
        /\ match(qout.rule, urlParse(qin))

====
